---- MODULE Spec2Model ----
(***************************************************************************)
(* Model of src/canary_deployment.py: class CanaryDeployment and its       *)
(* driver run_canary_deployment, a progressive canary rollout (10% -> 50%  *)
(* -> 100%) with a rollback decision after the first two stages.           *)
(*                                                                         *)
(* The run is sequential; pc is the position inside run_canary_deployment  *)
(* (or inside the loop of simulate_traffic).  Every database call may      *)
(* raise; an exception that nobody catches leaves run_canary_deployment    *)
(* (raised = TRUE).  Floats are modelled exactly: an error rate is the     *)
(* rational num/den, a latency is a positive integer number of time units, *)
(* comparisons are cross-multiplied.  The local `analysis` is a LET inside *)
(* the step that computes and consumes it; self.metrics is not written     *)
(* between that step and the end of the stage.                             *)
(***************************************************************************)
EXTENDS Integers, Sequences, FiniteSets, TLC

\* ---------------------------------------------------------------- bounds
\* simulate_traffic(200) is scaled down to RequestsPerStage requests.
RequestsPerStage == 3
\* Latencies range over 1..MaxLatency time units.
MaxLatency == 3
\* Invocations of run_canary_deployment on one object (SpecReuse only).
MaxRuns == 2

\* ------------------------------------------------------- program constants
Plan == <<10, 50, 100>>
NumStages == Len(Plan)
Envs == {"stable", "canary"}
Latencies == 1..MaxLatency
\* random.randint(1, 100): representatives around each stage's threshold.
Draws == {1, 10, 11, 50, 51, 100}

BannerRollback == "DEPLOYMENT FAILED - Initiating Rollback"
BannerCompleted == "CANARY DEPLOYMENT COMPLETED SUCCESSFULLY"

VARIABLES
    pc,                 \* position in run_canary_deployment
    stage,              \* index (1..3) of the stage block being executed
    stable_conn,        \* "None" | "open"
    canary_conn,        \* "None" | "open"
    canary_percentage,  \* self.canary_percentage
    metrics,            \* self.metrics: [stable, canary] -> Seq of outcomes
    i,                  \* loop counter of simulate_traffic
    raised,             \* an exception left run_canary_deployment
    printed,            \* outcome banners written to stdout in this run
    calls,              \* history: the calls made in this run, in order
    stageFails,         \* history: failed requests recorded in this stage
    prevAllFailed,      \* history: every request of the previous stage failed
    cleanSoFar,         \* history: every analysis so far had canary error 0
                        \*          and canary p95 equal to stable p95
    runs                \* invocations of run_canary_deployment so far

vars == <<pc, stage, stable_conn, canary_conn, canary_percentage, metrics,
          i, raised, printed, calls, stageFails, prevAllFailed,
          cleanSoFar, runs>>

\* ------------------------------------------------------------ pure helpers
EmptyMetrics == [env \in Envs |-> << >>]

Call(op, arg, ok) == [op |-> op, arg |-> arg, ok |-> ok]

RECURSIVE Insert(_, _)
Insert(x, s) ==
    IF s = << >> THEN <<x>>
    ELSE IF x <= Head(s) THEN <<x>> \o s
    ELSE <<Head(s)>> \o Insert(x, Tail(s))

\* sorted(latencies)
RECURSIVE Sorted(_)
Sorted(s) == IF s = << >> THEN << >> ELSE Insert(Head(s), Sorted(Tail(s)))

RECURSIVE SumLatency(_)
SumLatency(s) == IF s = << >> THEN 0 ELSE Head(s).latency + SumLatency(Tail(s))

RECURSIVE Successes(_)
Successes(s) ==
    IF s = << >> THEN 0
    ELSE (IF Head(s).success THEN 1 ELSE 0) + Successes(Tail(s))

\* Mutant of line 171: the 90th percentile rank for the 95th.
P95Index_P90(n) == ((n * 90) \div 100) + 1

\* int(len(latencies) * 0.95), as a 1-based index into the sorted sequence
P95Index(n) == ((n * 95) \div 100) + 1

LatenciesOf(s) == [k \in 1..Len(s) |-> s[k].latency]

\* One entry of the dict analyze_metrics builds for an environment.
Summary(s) ==
    [total_requests |-> Len(s),
     success_count  |-> Successes(s),
     error_rate     |-> [num |-> (Len(s) - Successes(s)) * 100, den |-> Len(s)],
     avg_latency    |-> [num |-> SumLatency(s), den |-> Len(s)],
     p95_latency    |-> Sorted(LatenciesOf(s))[P95Index(Len(s))]]

\* Mutant of analyze_metrics: the `continue` of line 163 is missing and an
\* empty buffer gets the zero-filled summary of the `else 0` branches.
AnalyzeMetrics_ZeroFilled(m) ==
    [env \in Envs |->
        IF m[env] = << >>
        THEN [total_requests |-> 0,
              success_count  |-> 0,
              error_rate     |-> [num |-> 0, den |-> 1],
              avg_latency    |-> [num |-> 0, den |-> 1],
              p95_latency    |-> 0]
        ELSE Summary(m[env])]

\* analyze_metrics: environments with an empty buffer are skipped.
AnalyzeMetrics(m) ==
    [env \in {e \in Envs : m[e] # << >>} |-> Summary(m[env])]

\* Mutant of should_rollback: the error-rate comparison is '>=' for '>'.
ShouldRollback_AtLeast(a) ==
    IF "canary" \notin DOMAIN a \/ "stable" \notin DOMAIN a THEN FALSE
    ELSE LET canary == a["canary"]
             stable == a["stable"]
         IN  IF canary.error_rate.num * stable.error_rate.den
                  >= 2 * stable.error_rate.num * canary.error_rate.den
             THEN TRUE
             ELSE IF 2 * canary.p95_latency > 3 * stable.p95_latency
             THEN TRUE
             ELSE FALSE

\* Mutant of should_rollback: the error-rate condition is missing.
ShouldRollback_LatencyOnly(a) ==
    IF "canary" \notin DOMAIN a \/ "stable" \notin DOMAIN a THEN FALSE
    ELSE 2 * a["canary"].p95_latency > 3 * a["stable"].p95_latency

\* should_rollback
ShouldRollback(a) ==
    IF "canary" \notin DOMAIN a \/ "stable" \notin DOMAIN a THEN FALSE
    ELSE LET canary == a["canary"]
             stable == a["stable"]
         IN  IF canary.error_rate.num * stable.error_rate.den
                  > 2 * stable.error_rate.num * canary.error_rate.den
             THEN TRUE
             ELSE IF 2 * canary.p95_latency > 3 * stable.p95_latency
             THEN TRUE
             ELSE FALSE

\* ------------------------------------------------------------------- Init
Init ==
    /\ pc = "connect"
    /\ stage = 1
    /\ stable_conn = "None"
    /\ canary_conn = "None"
    /\ canary_percentage = 0
    /\ metrics = EmptyMetrics
    /\ i = 0
    /\ raised = FALSE
    /\ printed = {}
    /\ calls = << >>
    /\ stageFails = 0
    /\ prevAllFailed = FALSE
    /\ cleanSoFar = TRUE
    /\ runs = 1

\* ---------------------------------------------------------------- actions
Log(op, arg, ok) == calls' = Append(calls, Call(op, arg, ok))

\* An uncaught exception unwinds run_canary_deployment.
Raise == /\ pc' = "done"
         /\ raised' = TRUE

\* Mutant of lines 256-257: the value connect_all returns is ignored.
ConnectAll_Ignored ==
    /\ pc = "connect"
    /\ \E ok \in BOOLEAN, first \in BOOLEAN :
          /\ Log("connect_all", 0, ok)
          /\ IF ok
             THEN /\ stable_conn' = "open"
                  /\ canary_conn' = "open"
             ELSE /\ stable_conn' = IF first THEN "open" ELSE stable_conn
                  /\ canary_conn' = canary_conn
    /\ pc' = "setup"
    /\ UNCHANGED <<stage, canary_percentage, metrics, i, raised,
                   printed, stageFails, prevAllFailed, cleanSoFar, runs>>

\* line 256: if not self.connect_all(): return
\* connect_all catches every exception itself and returns False.
ConnectAll ==
    /\ pc = "connect"
    /\ \E ok \in BOOLEAN, first \in BOOLEAN :
          /\ Log("connect_all", 0, ok)
          /\ IF ok
             THEN /\ stable_conn' = "open"
                  /\ canary_conn' = "open"
                  /\ pc' = "setup"
             ELSE \* the first connect may have succeeded before the second failed
                  /\ stable_conn' = IF first THEN "open" ELSE stable_conn
                  /\ canary_conn' = canary_conn
                  /\ pc' = "done"
    /\ UNCHANGED <<stage, canary_percentage, metrics, i, raised,
                   printed, stageFails, prevAllFailed, cleanSoFar, runs>>

\* line 259: self.setup()
Setup ==
    /\ pc = "setup"
    /\ \E ok \in BOOLEAN :
          /\ Log("setup", 0, ok)
          /\ IF ok THEN pc' = "apply" /\ raised' = raised ELSE Raise
    /\ UNCHANGED <<stage, stable_conn, canary_conn, canary_percentage, metrics,
                   i, printed, stageFails, prevAllFailed, cleanSoFar,
                   runs>>

\* Mutant of line 264: the failure of apply_canary_change is caught and the
\* run goes on.
ApplyCanaryChange_Swallow ==
    /\ pc = "apply"
    /\ \E ok \in BOOLEAN : Log("apply_canary_change", 0, ok)
    /\ pc' = "route"
    /\ UNCHANGED <<stage, stable_conn, canary_conn, canary_percentage, metrics,
                   i, raised, printed, stageFails, prevAllFailed, cleanSoFar,
                   runs>>

\* line 264: self.apply_canary_change()
ApplyCanaryChange ==
    /\ pc = "apply"
    /\ \E ok \in BOOLEAN :
          /\ Log("apply_canary_change", 0, ok)
          /\ IF ok THEN pc' = "route" /\ raised' = raised ELSE Raise
    /\ UNCHANGED <<stage, stable_conn, canary_conn, canary_percentage, metrics,
                   i, printed, stageFails, prevAllFailed, cleanSoFar,
                   runs>>

\* Mutant of lines 286, 304: the buffers are not cleared.
ResetMetrics_Skip ==
    /\ pc = "reset"
    /\ pc' = "route"
    /\ UNCHANGED <<stage, stable_conn, canary_conn, canary_percentage, metrics,
                   i, raised, printed, calls, stageFails, prevAllFailed,
                   cleanSoFar, runs>>

\* lines 286, 304: self.metrics = {'stable': [], 'canary': []}
ResetMetrics ==
    /\ pc = "reset"
    /\ metrics' = EmptyMetrics
    /\ pc' = "route"
    /\ UNCHANGED <<stage, stable_conn, canary_conn, canary_percentage, i, raised, printed, calls, stageFails, prevAllFailed,
                   cleanSoFar, runs>>

\* Mutant of lines 287, 305: every stage routes the first plan entry again.
RouteTraffic_Repeat ==
    /\ pc = "route"
    /\ canary_percentage' = Plan[1]
    /\ Log("route_traffic", Plan[1], TRUE)
    /\ pc' = "simulate"
    /\ UNCHANGED <<stage, stable_conn, canary_conn, metrics, i, raised, printed,
                   stageFails, prevAllFailed, cleanSoFar, runs>>

\* lines 269, 287, 305: self.route_traffic(Plan[stage])
RouteTraffic ==
    /\ pc = "route"
    /\ canary_percentage' = Plan[stage]
    /\ Log("route_traffic", Plan[stage], TRUE)
    /\ pc' = "simulate"
    /\ UNCHANGED <<stage, stable_conn, canary_conn, metrics, i,
                   raised, printed, stageFails, prevAllFailed, cleanSoFar, runs>>

\* lines 270, 288, 306: entry of simulate_traffic, before the first iteration
SimulateTraffic ==
    /\ pc = "simulate"
    /\ i' = 0
    /\ Log("simulate_traffic", RequestsPerStage, TRUE)
    /\ prevAllFailed' = (i = RequestsPerStage /\ stageFails = RequestsPerStage)
    /\ stageFails' = 0
    /\ pc' = "loop"
    /\ UNCHANGED <<stage, stable_conn, canary_conn, canary_percentage, metrics,
                   raised, printed, cleanSoFar, runs>>

\* Mutant of lines 146-152: the outcome of a request whose query failed is
\* not appended.
Request_DropFailed ==
    /\ pc = "loop"
    /\ i < RequestsPerStage
    /\ \E draw \in Draws, fault \in {"none", "query", "fatal"},
          latency \in Latencies :
          LET use_canary == draw <= canary_percentage
              env == IF use_canary THEN "canary" ELSE "stable"
              success == fault = "none"
          IN  IF fault = "fatal"
              THEN /\ Raise
                   /\ UNCHANGED <<metrics, i, stageFails>>
              ELSE /\ metrics' = IF success
                                 THEN [metrics EXCEPT ![env] =
                                         Append(@, [success |-> success,
                                                    latency |-> latency])]
                                 ELSE metrics
                   /\ i' = i + 1
                   /\ stageFails' = stageFails + (IF success THEN 0 ELSE 1)
                   /\ UNCHANGED <<pc, raised>>
    /\ UNCHANGED <<stage, stable_conn, canary_conn, canary_percentage, printed,
                   calls, prevAllFailed, cleanSoFar, runs>>

\* Mutant of line 142: the draw is compared with '<' for '<='.
Request_StrictDraw ==
    /\ pc = "loop"
    /\ i < RequestsPerStage
    /\ \E draw \in Draws, fault \in {"none", "query", "fatal"},
          latency \in Latencies :
          LET use_canary == draw < canary_percentage
              env == IF use_canary THEN "canary" ELSE "stable"
              success == fault = "none"
          IN  IF fault = "fatal"
              THEN /\ Raise
                   /\ UNCHANGED <<metrics, i, stageFails>>
              ELSE /\ metrics' = [metrics EXCEPT ![env] =
                          Append(@, [success |-> success, latency |-> latency])]
                   /\ i' = i + 1
                   /\ stageFails' = stageFails + (IF success THEN 0 ELSE 1)
                   /\ UNCHANGED <<pc, raised>>
    /\ UNCHANGED <<stage, stable_conn, canary_conn, canary_percentage, printed,
                   calls, prevAllFailed, cleanSoFar, runs>>

\* One iteration of the loop of simulate_traffic, execute_query included.
\* fault = "none":  the query and the metric insert succeed;
\* fault = "query": the try block raises, the handler's insert succeeds;
\* fault = "fatal": conn.cursor() or the handler's insert raises, and the
\*                  exception leaves simulate_traffic before the append.
Request ==
    /\ pc = "loop"
    /\ i < RequestsPerStage
    /\ \E draw \in Draws, fault \in {"none", "query", "fatal"},
          latency \in Latencies :
          LET use_canary == draw <= canary_percentage
              env == IF use_canary THEN "canary" ELSE "stable"
              success == fault = "none"
          IN  IF fault = "fatal"
              THEN /\ Raise
                   /\ UNCHANGED <<metrics, i, stageFails>>
              ELSE /\ metrics' = [metrics EXCEPT ![env] =
                          Append(@, [success |-> success, latency |-> latency])]
                   /\ i' = i + 1
                   /\ stageFails' = stageFails + (IF success THEN 0 ELSE 1)
                   /\ UNCHANGED <<pc, raised>>
    /\ UNCHANGED <<stage, stable_conn, canary_conn, canary_percentage, printed, calls, prevAllFailed, cleanSoFar, runs>>

\* The loop of simulate_traffic is exhausted: return to run_canary_deployment.
SimulateReturn ==
    /\ pc = "loop"
    /\ i = RequestsPerStage
    /\ pc' = "analyze"
    /\ UNCHANGED <<stage, stable_conn, canary_conn, canary_percentage, metrics,
                   i, raised, printed, calls, stageFails,
                   prevAllFailed, cleanSoFar, runs>>

StageClean(a) ==
    /\ "canary" \in DOMAIN a => a["canary"].error_rate.num = 0
    /\ ("canary" \in DOMAIN a /\ "stable" \in DOMAIN a)
          => a["canary"].p95_latency = a["stable"].p95_latency

\* lines 272-281, 290-299: analysis = self.analyze_metrics(), printed, then
\* if self.should_rollback(analysis): banner, on to rollback_canary;
\* otherwise on to the next stage's block.
AnalyzeAndDecide ==
    /\ pc = "analyze"
    /\ stage < NumStages
    /\ LET analysis == AnalyzeMetrics(metrics)
       IN  /\ calls' = calls \o
                  <<Call("analyze_metrics", Plan[stage], TRUE),
                    Call("should_rollback", Plan[stage], ShouldRollback(analysis))>>
           /\ cleanSoFar' = (cleanSoFar /\ StageClean(analysis))
           /\ IF ShouldRollback(analysis)
              THEN /\ printed' = printed \cup {BannerRollback}
                   /\ pc' = "rollback"
                   /\ stage' = stage
              ELSE /\ printed' = printed
                   /\ pc' = "reset"
                   /\ stage' = stage + 1
    /\ UNCHANGED <<stable_conn, canary_conn, canary_percentage, metrics, i,
                   raised, stageFails, prevAllFailed, runs>>

\* lines 308-309: the last stage's analysis is computed and printed; the code
\* goes straight on to the promotion.
AnalyzeFinal ==
    /\ pc = "analyze"
    /\ stage = NumStages
    /\ LET analysis == AnalyzeMetrics(metrics)
       IN  /\ Log("analyze_metrics", Plan[stage], TRUE)
           /\ cleanSoFar' = (cleanSoFar /\ StageClean(analysis))
    /\ pc' = "promote"
    /\ UNCHANGED <<stage, stable_conn, canary_conn, canary_percentage, metrics,
                   i, raised, printed, stageFails, prevAllFailed, runs>>

\* Mutant of lines 278, 296: the `return` after rollback_canary is missing.
RollbackCanary_NoReturn ==
    /\ pc = "rollback"
    /\ \E ok \in BOOLEAN :
          /\ Log("rollback_canary", 0, ok)
          /\ IF ok
             THEN pc' = "reset" /\ stage' = stage + 1 /\ raised' = raised
             ELSE Raise /\ stage' = stage
    /\ UNCHANGED <<stable_conn, canary_conn, canary_percentage, metrics, i,
                   printed, stageFails, prevAllFailed, cleanSoFar, runs>>

\* lines 277-278, 295-296: self.rollback_canary(); return
RollbackCanary ==
    /\ pc = "rollback"
    /\ \E ok \in BOOLEAN :
          /\ Log("rollback_canary", 0, ok)
          /\ IF ok THEN pc' = "done" /\ raised' = raised ELSE Raise
    /\ UNCHANGED <<stage, stable_conn, canary_conn, canary_percentage, metrics,
                   i, printed, stageFails, prevAllFailed, cleanSoFar,
                   runs>>

\* Mutant of lines 316-327: a failure of the CREATE INDEX on stable is caught
\* and the success banner is printed all the same.
Promote_Swallow ==
    /\ pc = "promote"
    /\ \E ok \in BOOLEAN : Log("promote", 0, ok)
    /\ printed' = printed \cup {BannerCompleted}
    /\ pc' = "done"
    /\ UNCHANGED <<stage, stable_conn, canary_conn, canary_percentage, metrics,
                   i, raised, stageFails, prevAllFailed, cleanSoFar, runs>>

\* lines 311-333: CREATE INDEX on stable_conn, then the success banner
Promote ==
    /\ pc = "promote"
    /\ \E ok \in BOOLEAN :
          /\ Log("promote", 0, ok)
          /\ IF ok
             THEN /\ printed' = printed \cup {BannerCompleted}
                  /\ pc' = "done"
                  /\ raised' = raised
             ELSE /\ printed' = printed
                  /\ Raise
    /\ UNCHANGED <<stage, stable_conn, canary_conn, canary_percentage, metrics,
                   i, stageFails, prevAllFailed, cleanSoFar, runs>>

\* run_canary_deployment is called again on the same object: the object's
\* fields keep their values, the run's locals and history start afresh.
Rerun ==
    /\ pc = "done"
    /\ runs < MaxRuns
    /\ runs' = runs + 1
    /\ pc' = "connect"
    /\ stage' = 1
    /\ i' = 0
    /\ raised' = FALSE
    /\ printed' = {}
    /\ calls' = << >>
    /\ stageFails' = 0
    /\ prevAllFailed' = FALSE
    /\ cleanSoFar' = TRUE
    /\ UNCHANGED <<stable_conn, canary_conn, canary_percentage, metrics>>

Next ==
    \/ ConnectAll
    \/ Setup
    \/ ApplyCanaryChange
    \/ ResetMetrics
    \/ RouteTraffic
    \/ SimulateTraffic
    \/ Request
    \/ SimulateReturn
    \/ AnalyzeAndDecide
    \/ AnalyzeFinal
    \/ RollbackCanary
    \/ Promote

\* main(): one CanaryDeployment object, one run.
Spec == Init /\ [][Next]_vars

NextReuse == Next \/ Rerun

\* One object, run_canary_deployment invoked up to MaxRuns times.
SpecReuse == Init /\ [][NextReuse]_vars

\* ------------------------------------------------- reading the call history
Called(op) == \E k \in DOMAIN calls : calls[k].op = op

Count(op, arg) ==
    Cardinality({k \in DOMAIN calls : calls[k].op = op /\ calls[k].arg = arg})

IsRoute(c) == c.op = "route_traffic"

Routes == SelectSeq(calls, IsRoute)

\* analyze_metrics has run for the stage block the run is in.  self.metrics
\* is then not written before the next reset, so AnalyzeMetrics(metrics) is
\* that stage's analysis.
StageAnalysed ==
    \E k \in DOMAIN calls :
        calls[k].op = "analyze_metrics" /\ calls[k].arg = Plan[stage]

StageAnalysis == AnalyzeMetrics(metrics)

Recorded == Len(metrics["stable"]) + Len(metrics["canary"])

Collaborators == {"apply_canary_change", "rollback_canary", "promote"}

\* ------------------------------------------------------------------- C1
\* C1: the change is promoted to stable only after should_rollback was
\* evaluated on the final (100%) stage's analysis and returned false.
C1_PromotionGatedByFinalStage ==
    \A k \in DOMAIN calls :
        calls[k].op = "promote"
            => \E j \in 1..(k - 1) : calls[j] = Call("should_rollback", 100, FALSE)

\* ------------------------------------------------------------------- C2
\* C2: the run enters the rolled-back outcome iff should_rollback is true of
\* the stage's analysis; it then invokes rollback_canary and terminates:
\* rollback_canary is the last call of the run, and no promotion occurs.
C2_RollbackIffEvaluatorTrue ==
    /\ (BannerRollback \in printed)
          <=> (StageAnalysed /\ ShouldRollback(StageAnalysis))
    /\ (BannerRollback \in printed)
          <=> (pc = "rollback" \/ Called("rollback_canary"))
    /\ \A k \in DOMAIN calls :
          calls[k].op = "rollback_canary" => (k = Len(calls) /\ pc = "done")
    /\ Called("rollback_canary") => ~Called("promote")

C2_Witness ==
    /\ stage = 2
    /\ pc = "done"
    /\ Called("rollback_canary")
    /\ ShouldRollback(StageAnalysis)

\* ------------------------------------------------------------------- C3
\* C3: the split is set to 10, 50, 100 in that order, none skipped or
\* repeated; a stage is followed by the next plan entry iff should_rollback
\* was false of its analysis, taken after all of the stage's requests.
C3_StagesInPlanOrder ==
    /\ Len(Routes) <= NumStages
    /\ \A k \in DOMAIN Routes : Routes[k].arg = Plan[k]
    /\ canary_percentage = IF Routes = << >> THEN 0 ELSE Plan[Len(Routes)]
    /\ \A k \in DOMAIN calls :
          (calls[k].op = "route_traffic" /\ calls[k].arg # Plan[1])
              => /\ k > 2
                 /\ calls[k - 1].op = "should_rollback"
                 /\ calls[k - 1].ok = FALSE
                 /\ calls[k].arg = Plan[stage] \/ calls[k].arg = Plan[stage - 1]
                 /\ \E s \in 1..(NumStages - 1) :
                       /\ calls[k - 1].arg = Plan[s]
                       /\ calls[k].arg = Plan[s + 1]
    /\ \A k \in DOMAIN calls :
          calls[k].op = "should_rollback"
              => IF calls[k].ok
                 THEN \A j \in (k + 1)..Len(calls) : calls[j].op # "route_traffic"
                 ELSE IF k = Len(calls)
                 THEN pc \in {"reset", "route"} /\ calls[k].arg = Plan[stage - 1]
                 ELSE calls[k + 1].op = "route_traffic"
    /\ pc = "reset" => (i = RequestsPerStage /\ Recorded = RequestsPerStage)

C3_Witness ==
    /\ Len(Routes) = NumStages
    /\ canary_percentage = 100
    /\ Count("should_rollback", 10) = 1
    /\ Count("should_rollback", 50) = 1

\* ------------------------------------------------------------------- C4
\* C4: in a run that ends without an exception, should_rollback has been
\* invoked exactly once for each stage that ran (10%, 50% and 100%).
C4_EvaluatorOncePerStage ==
    (pc = "done" /\ ~raised)
        => \A s \in 1..NumStages :
              Count("route_traffic", Plan[s]) > 0
                  => Cardinality({k \in DOMAIN calls :
                         calls[k].op = "should_rollback"
                         /\ calls[k].arg = Plan[s]}) = 1

\* ------------------------------------------------------------------- C5
\* C5 (scenario A): when every stage's analysis shows a canary error rate of
\* 0 and a canary p95 equal to the stable p95, and no database call fails,
\* the run ends promoted, with apply_canary_change and the promotion invoked
\* exactly once each and rollback_canary never.
NoCallFailed ==
    /\ ~raised
    /\ \A k \in DOMAIN calls : calls[k].op # "should_rollback" => calls[k].ok

C5_ScenarioA ==
    (pc = "done" /\ cleanSoFar /\ NoCallFailed)
        => /\ BannerCompleted \in printed
           /\ Count("apply_canary_change", 0) = 1
           /\ Count("promote", 0) = 1
           /\ Count("rollback_canary", 0) = 0
           /\ Len(Routes) = NumStages

C5_Witness ==
    /\ pc = "done"
    /\ cleanSoFar
    /\ NoCallFailed
    /\ BannerCompleted \in printed

\* ------------------------------------------------------------------- C6
\* The analysis of scenario B's 10% stage window: 100 stable requests, 2 of
\* them failed (2%), and 100 canary requests, 25 of them failed (25%), all
\* with the same latency.
ScenarioBAnalysis ==
    [stable |-> [total_requests |-> 100, success_count |-> 98,
                 error_rate |-> [num |-> 2 * 100, den |-> 100],
                 avg_latency |-> [num |-> 100, den |-> 100],
                 p95_latency |-> 1],
     canary |-> [total_requests |-> 100, success_count |-> 75,
                 error_rate |-> [num |-> 25 * 100, den |-> 100],
                 avg_latency |-> [num |-> 100, den |-> 100],
                 p95_latency |-> 1]]

ErrorSpike(a) ==
    /\ "canary" \in DOMAIN a
    /\ "stable" \in DOMAIN a
    /\ a["canary"].error_rate.num * a["stable"].error_rate.den
          > 2 * a["stable"].error_rate.num * a["canary"].error_rate.den

\* C6 (scenario B): should_rollback is true of a 25% canary against a 2%
\* stable error rate; whenever the 10% stage's analysis has a canary error
\* rate above twice the stable one, the run rolls back with one invocation of
\* rollback_canary and route_traffic(50), route_traffic(100) are never called.
C6_ScenarioB ==
    /\ ShouldRollback(ScenarioBAnalysis)
    /\ (stage = 1 /\ StageAnalysed /\ ErrorSpike(StageAnalysis))
          => /\ BannerRollback \in printed
             /\ pc \in {"rollback", "done"}
             /\ Count("route_traffic", 50) = 0
             /\ Count("route_traffic", 100) = 0
             /\ canary_percentage = 10
             /\ Count("promote", 0) = 0
             /\ Count("rollback_canary", 0) = IF pc = "done" THEN 1 ELSE 0

C6_Witness ==
    /\ stage = 1
    /\ StageAnalysed
    /\ ErrorSpike(StageAnalysis)
    /\ pc = "done"
    /\ Called("rollback_canary")

\* ------------------------------------------------------------------- C7
\* C7: if apply_canary_change fails, the run ends with the exception and no
\* traffic is split: no route_traffic, simulate_traffic, rollback_canary or
\* promotion, canary_percentage and the metric buffers untouched.
ApplyFailed == \E k \in DOMAIN calls : calls[k] = Call("apply_canary_change", 0, FALSE)

C7_ApplyFailureStopsRun ==
    ApplyFailed
        => /\ pc = "done"
           /\ raised
           /\ ~Called("route_traffic")
           /\ ~Called("simulate_traffic")
           /\ ~Called("rollback_canary")
           /\ ~Called("promote")
           /\ canary_percentage = 0
           /\ Recorded = 0
           /\ printed = {}

C7_Witness == ApplyFailed /\ pc = "done"

\* ------------------------------------------------------------------- C8
\* C8: a failed apply, rollback or promotion ends the run with the exception
\* (it is the run's last call, and the success banner is not printed); a
\* failed promotion is not a rollback: rollback_canary is not invoked and the
\* rollback banner is not printed.
C8_CollaboratorFailureFatal ==
    \A k \in DOMAIN calls :
        (calls[k].op \in Collaborators /\ ~calls[k].ok)
            => /\ raised
               /\ pc = "done"
               /\ k = Len(calls)
               /\ BannerCompleted \notin printed
               /\ calls[k].op = "promote"
                     => (~Called("rollback_canary") /\ BannerRollback \notin printed)

C8_Witness ==
    /\ Len(calls) > 0
    /\ calls[Len(calls)] = Call("promote", 0, FALSE)
    /\ Len(Routes) = NumStages
    /\ pc = "done"

\* ------------------------------------------------------------------- C9
\* C9: whenever simulate_traffic starts, in any invocation of
\* run_canary_deployment on the object, both metric buffers are empty.
C9_WindowEmptyAtStageStart ==
    (pc = "simulate" \/ (pc = "loop" /\ i = 0)) => metrics = EmptyMetrics

\* ------------------------------------------------------------------ C10
TotalRequests(a) ==
    (IF "stable" \in DOMAIN a THEN a["stable"].total_requests ELSE 0)
    + (IF "canary" \in DOMAIN a THEN a["canary"].total_requests ELSE 0)

\* C10: if every request of the previous stage failed and every request of
\* this stage succeeded, this stage's analysis has error rate 0 for each
\* variant present and its total_requests count this stage's requests only.
C10_WindowIsolation ==
    (stage >= 2 /\ StageAnalysed /\ prevAllFailed /\ stageFails = 0)
        => /\ \A env \in DOMAIN StageAnalysis :
                 /\ StageAnalysis[env].error_rate.num = 0
                 /\ StageAnalysis[env].success_count
                       = StageAnalysis[env].total_requests
           /\ TotalRequests(StageAnalysis) = RequestsPerStage

C10_Witness ==
    /\ stage = 2
    /\ StageAnalysed
    /\ prevAllFailed
    /\ stageFails = 0
    /\ DOMAIN StageAnalysis = Envs

\* ------------------------------------------- the methods called on their own
\* analyze_metrics() and should_rollback(analysis) called directly on an
\* object whose buffers hold a window drawn from PureWindows.

\* Buffers of the general windows hold at most MaxWindow outcomes each.
MaxWindow == 2
\* The ramp windows hold 1..MaxRamp outcomes per buffer.
MaxRamp == 40

Outcomes == [success : BOOLEAN, latency : Latencies]

SeqsUpTo(n) == UNION {[1..k -> Outcomes] : k \in 0..n}

SmallWindows == [Envs -> SeqsUpTo(MaxWindow)]

\* n latencies 10, 20, ..., 10n: ascending in the stable buffer, descending in
\* the canary buffer.
RampWindow(n) ==
    [stable |-> [k \in 1..n |-> [success |-> TRUE, latency |-> 10 * k]],
     canary |-> [k \in 1..n |-> [success |-> TRUE, latency |-> 10 * (n + 1 - k)]]]

PureWindows == SmallWindows \cup {RampWindow(n) : n \in 1..MaxRamp}

InitPure ==
    /\ pc = "pure_analyze"
    /\ stage = 1
    /\ stable_conn = "None"
    /\ canary_conn = "None"
    /\ canary_percentage = 0
    /\ metrics \in PureWindows
    /\ i = 0
    /\ raised = FALSE
    /\ printed = {}
    /\ calls = << >>
    /\ stageFails = 0
    /\ prevAllFailed = FALSE
    /\ cleanSoFar = TRUE
    /\ runs = 1

\* analysis = self.analyze_metrics(); the history keeps the returned dict.
PureAnalyze ==
    /\ pc = "pure_analyze"
    /\ Log("analyze_metrics", AnalyzeMetrics(metrics), TRUE)
    /\ pc' = "pure_decide"
    /\ UNCHANGED <<stage, stable_conn, canary_conn, canary_percentage, metrics,
                   i, raised, printed, stageFails, prevAllFailed, cleanSoFar,
                   runs>>

\* self.should_rollback(analysis); the history keeps the argument and the
\* returned boolean.
PureDecide ==
    /\ pc = "pure_decide"
    /\ LET analysis == calls[Len(calls)].arg
       IN  Log("should_rollback", analysis, ShouldRollback(analysis))
    /\ pc' = "done"
    /\ UNCHANGED <<stage, stable_conn, canary_conn, canary_percentage, metrics,
                   i, raised, printed, stageFails, prevAllFailed, cleanSoFar,
                   runs>>

NextPure ==
    \/ PureAnalyze
    \/ PureDecide

SpecPure == InitPure /\ [][NextPure]_vars

Present(a) == "canary" \in DOMAIN a /\ "stable" \in DOMAIN a

LatencySpike(a) ==
    /\ Present(a)
    /\ 2 * a["canary"].p95_latency > 3 * a["stable"].p95_latency

Decisions == {k \in DOMAIN calls : calls[k].op = "should_rollback"}

\* ------------------------------------------------------------------ C11
\* C11: should_rollback returns false if the stable or the canary summary is
\* absent, otherwise true if canary.error_rate > 2 * stable.error_rate,
\* otherwise true if canary.p95_latency > 1.5 * stable.p95_latency,
\* otherwise false; the call leaves the object's fields as they were.
C11_Table ==
    \A k \in Decisions :
        LET a == calls[k].arg
        IN  /\ ~Present(a) => calls[k].ok = FALSE
            /\ (Present(a) /\ ErrorSpike(a)) => calls[k].ok = TRUE
            /\ (Present(a) /\ ~ErrorSpike(a) /\ LatencySpike(a))
                  => calls[k].ok = TRUE
            /\ (Present(a) /\ ~ErrorSpike(a) /\ ~LatencySpike(a))
                  => calls[k].ok = FALSE

C11_DecisionTable ==
    /\ []C11_Table
    /\ [][pc = "pure_decide"
            => UNCHANGED <<metrics, canary_percentage, stable_conn, canary_conn>>]_vars

C11_Witness ==
    \E k \in Decisions :
        /\ Present(calls[k].arg)
        /\ ~ErrorSpike(calls[k].arg)
        /\ LatencySpike(calls[k].arg)
        /\ calls[k].ok = TRUE

\* ------------------------------------------------------------------ C12
ExactDouble(a) ==
    /\ Present(a)
    /\ a["canary"].error_rate.num * a["stable"].error_rate.den
          = 2 * a["stable"].error_rate.num * a["canary"].error_rate.den

\* C12 as stated: with both summaries present and canary.error_rate equal to
\* 2 * stable.error_rate, should_rollback returns false.
C12_ExactDoubleReturnsFalse ==
    \A k \in Decisions : ExactDouble(calls[k].arg) => calls[k].ok = FALSE

\* C12 as amended: with both summaries present and canary.error_rate equal to
\* 2 * stable.error_rate, the error-rate comparison does not trigger:
\* should_rollback returns true exactly when canary.p95_latency exceeds
\* 1.5 * stable.p95_latency, and false otherwise.
C12_ExactDoubleLeavesLatency ==
    \A k \in Decisions :
        ExactDouble(calls[k].arg) => calls[k].ok = LatencySpike(calls[k].arg)

C12_Witness ==
    \E k \in Decisions :
        /\ ExactDouble(calls[k].arg)
        /\ calls[k].arg["stable"].error_rate.num > 0
        /\ calls[k].ok = FALSE

\* ------------------------------------------------------------------ C13
StableCleanCanaryFailed(a) ==
    /\ Present(a)
    /\ a["stable"].error_rate.num = 0
    /\ a["canary"].error_rate.num > 0

\* C13: should_rollback is true of every analysis with both summaries
\* present, a stable error rate of 0 and a canary error rate above 0; a stage
\* analysed with such a window (one failed canary request is enough) rolls
\* back and is never promoted.
C13_ZeroStableAnyCanaryError ==
    StableCleanCanaryFailed(StageAnalysis)
        => /\ ShouldRollback(StageAnalysis)
           /\ StageAnalysed
                 => /\ BannerRollback \in printed
                    /\ pc \in {"rollback", "done"}
                    /\ ~Called("promote")
                    /\ pc = "done" => Called("rollback_canary")

C13_Witness ==
    /\ StageAnalysed
    /\ StableCleanCanaryFailed(StageAnalysis)
    /\ StageAnalysis["canary"].total_requests
          - StageAnalysis["canary"].success_count = 1
    /\ ~LatencySpike(StageAnalysis)
    /\ Called("rollback_canary")

\* ------------------------------------------------------------------ C14
Analyses == {k \in DOMAIN calls : calls[k].op = "analyze_metrics"}

SuccessSet(s) == {k \in DOMAIN s : s[k].success}

\* C14: analyze_metrics reports a variant iff its buffer is non-empty; for
\* each variant reported total_requests > 0 is the buffer's length,
\* success_count <= total_requests is its number of successes, and
\* error_rate = (total_requests - success_count) / total_requests * 100.
C14_OmitsIffEmpty ==
    \A k \in Analyses :
        LET a == calls[k].arg
        IN  /\ DOMAIN a = {env \in Envs : Len(metrics[env]) > 0}
            /\ \A env \in DOMAIN a :
                  /\ a[env].total_requests = Len(metrics[env])
                  /\ a[env].total_requests > 0
                  /\ a[env].success_count = Cardinality(SuccessSet(metrics[env]))
                  /\ a[env].success_count <= a[env].total_requests
                  /\ a[env].error_rate.den > 0
                  /\ a[env].error_rate.num * a[env].total_requests
                        = (a[env].total_requests - a[env].success_count) * 100
                             * a[env].error_rate.den

C14_Witness ==
    \E k \in Analyses :
        /\ DOMAIN calls[k].arg = {"canary"}
        /\ calls[k].arg["canary"].success_count = 1
        /\ calls[k].arg["canary"].total_requests = 2

\* ------------------------------------------------------------------ C15
\* The 0-based rank floor(0.95 * n).
Rank95(n) == (95 * n) \div 100

\* v is the element at 0-based index r of the latencies of s sorted ascending.
AtRank(s, r, v) ==
    /\ \E k \in DOMAIN s : s[k].latency = v
    /\ Cardinality({k \in DOMAIN s : s[k].latency < v}) <= r
    /\ Cardinality({k \in DOMAIN s : s[k].latency <= v}) > r

\* C15: the p95_latency analyze_metrics reports for a buffer of n > 0
\* outcomes is the element at 0-based index floor(0.95 * n) of the latencies
\* sorted ascending; the index is within 0..n-1; for the latencies
\* 10, 20, ..., 100 the index is 9 and the result is 100, the maximum.
C15_NearestRankP95 ==
    \A k \in Analyses :
        LET a == calls[k].arg
        IN  /\ \A env \in DOMAIN a :
                  LET n == Len(metrics[env])
                  IN  /\ Rank95(n) \in 0..(n - 1)
                      /\ P95Index(n) = Rank95(n) + 1
                      /\ AtRank(metrics[env], Rank95(n), a[env].p95_latency)
            /\ metrics = RampWindow(10)
                  => /\ Rank95(Len(metrics["stable"])) = 9
                     /\ a["stable"].p95_latency = 100
                     /\ a["canary"].p95_latency = 100

C15_Witness ==
    \E k \in Analyses :
        /\ metrics = RampWindow(10)
        /\ calls[k].arg["stable"].p95_latency = 100
        /\ calls[k].arg["canary"].p95_latency = 100

\* ------------------------------------------------------------------ C16
\* A call that puts the run in a terminal outcome: the promotion, the
\* rollback, or a failed apply, rollback or promotion.
IsTerminalCall(c) ==
    \/ c.op \in {"promote", "rollback_canary"}
    \/ (c.op \in Collaborators /\ ~c.ok)

C16_TerminalCallIsLast ==
    \A k \in DOMAIN calls :
        IsTerminalCall(calls[k]) => (k = Len(calls) /\ pc = "done")

\* C16: promoted, rolled back and failed are terminal: the promotion, the
\* rollback or a failed collaborator call is the last call of the run, and
\* the run takes no step once it has ended.
C16_OutcomesTerminal ==
    /\ []C16_TerminalCallIsLast
    /\ [][pc # "done"]_vars

C16_Witness ==
    /\ pc = "done"
    /\ Len(calls) > 0
    /\ calls[Len(calls)] = Call("promote", 0, TRUE)
    /\ BannerCompleted \in printed

\* ------------------------------------------------------------------ C17
\* simulate_traffic has been entered for the stage block the run is in.
StageStarted == Len(Routes) = stage /\ pc # "simulate"

FailureCount(s) == Len(s) - Cardinality(SuccessSet(s))

\* The buffer `after` is the buffer `before` with one outcome appended.
GrewByOne(before, after) ==
    /\ Len(after) = Len(before) + 1
    /\ SubSeq(after, 1, Len(before)) = before

C17_OneOutcomePerRequest ==
    /\ StageStarted
          => /\ Recorded = i
             /\ FailureCount(metrics["stable"]) + FailureCount(metrics["canary"])
                   = stageFails
    /\ StageAnalysed => Recorded = RequestsPerStage

C17_LoopStep ==
    /\ (pc = "loop" /\ i' = i + 1)
          => \E env \in Envs :
                /\ GrewByOne(metrics[env], metrics'[env])
                /\ \A other \in Envs \ {env} : metrics'[other] = metrics[other]
    /\ (StageAnalysed /\ stage' = stage) => metrics' = metrics

\* C17: every request of simulate_traffic, failed queries included, appends
\* exactly one outcome to exactly one buffer; when a stage's analysis runs the
\* two buffers together hold the stage's request count; nothing is recorded
\* for a stage after its analysis.
C17_SequentialStages ==
    /\ []C17_OneOutcomePerRequest
    /\ [][C17_LoopStep]_vars

C17_Witness ==
    /\ StageAnalysed
    /\ stage = 2
    /\ stageFails > 0
    /\ Len(metrics["stable"]) > 0
    /\ Len(metrics["canary"]) > 0

\* ------------------------------------- traffic methods called on their own
\* route_traffic(p), simulate_traffic(n), analyze_metrics() and
\* should_rollback(analysis) called in this order on a fresh, connected
\* object, outside run_canary_deployment: stage = NoStage.
NoStage == NumStages + 1

Percentages == {0, 10, 50, 100}

InitUnit ==
    /\ pc = "unit_route"
    /\ stage = NoStage
    /\ stable_conn = "open"
    /\ canary_conn = "open"
    /\ canary_percentage = 0
    /\ metrics = EmptyMetrics
    /\ i = 0
    /\ raised = FALSE
    /\ printed = {}
    /\ calls = << >>
    /\ stageFails = 0
    /\ prevAllFailed = FALSE
    /\ cleanSoFar = TRUE
    /\ runs = 1

\* self.route_traffic(p)
UnitRouteTraffic ==
    /\ pc = "unit_route"
    /\ \E p \in Percentages :
          /\ canary_percentage' = p
          /\ Log("route_traffic", p, TRUE)
    /\ pc' = "simulate"
    /\ UNCHANGED <<stage, stable_conn, canary_conn, metrics, i, raised, printed,
                   stageFails, prevAllFailed, cleanSoFar, runs>>

\* analysis = self.analyze_metrics(); self.should_rollback(analysis)
UnitAnalyze ==
    /\ pc = "analyze"
    /\ stage = NoStage
    /\ LET analysis == AnalyzeMetrics(metrics)
       IN  calls' = calls \o
              <<Call("analyze_metrics", canary_percentage, TRUE),
                Call("should_rollback", canary_percentage,
                     ShouldRollback(analysis))>>
    /\ pc' = "done"
    /\ UNCHANGED <<stage, stable_conn, canary_conn, canary_percentage, metrics,
                   i, raised, printed, stageFails, prevAllFailed, cleanSoFar,
                   runs>>

NextUnit ==
    \/ Next
    \/ UnitRouteTraffic
    \/ UnitAnalyze

\* A run of run_canary_deployment on a fresh object, or the traffic methods
\* called on their own.
SpecUnit == (Init \/ InitUnit) /\ [][NextUnit]_vars

\* ------------------------------------------------------------------ C18
\* Every outcome recorded since the split was set belongs to `env`: the other
\* buffer is empty, the analysis has no summary for it, should_rollback is
\* false of the analysis and has not returned true at this split.
OnlyVariant(env, other) ==
    /\ metrics[other] = << >>
    /\ other \notin DOMAIN AnalyzeMetrics(metrics)
    /\ ~ShouldRollback(AnalyzeMetrics(metrics))
    /\ \A k \in Decisions : calls[k].arg = canary_percentage => ~calls[k].ok
    /\ Len(metrics[env]) = IF pc \in {"unit_route", "simulate"} THEN 0 ELSE i

\* C18: while canary_percentage is 100 (the 100% stage of a run included)
\* every request is recorded as canary, the stable buffer stays empty and
\* should_rollback is false of the analysis whatever the canary outcomes are;
\* while canary_percentage is 0 the same holds with the variants exchanged.
C18_FullSplitNeverRollsBack ==
    /\ canary_percentage = 100 => OnlyVariant("canary", "stable")
    /\ (canary_percentage = 0 /\ stage = NoStage)
          => OnlyVariant("stable", "canary")
    /\ canary_percentage = 0 => metrics["canary"] = << >>

C18_Witness ==
    /\ stage = NumStages
    /\ canary_percentage = 100
    /\ pc = "done"
    /\ BannerCompleted \in printed
    /\ stageFails = RequestsPerStage
    /\ FailureCount(metrics["canary"]) = RequestsPerStage

C18_WitnessZero ==
    /\ stage = NoStage
    /\ canary_percentage = 0
    /\ pc = "done"
    /\ ~raised
    /\ FailureCount(metrics["stable"]) = 0
    /\ Len(metrics["stable"]) = RequestsPerStage

\* ------------------------------------------------------------------ C19
Indices(op) == {k \in DOMAIN calls : calls[k].op = op}

\* C19: in a run rollback_canary is invoked at most once, the promotion at
\* most once, never both, and each only after apply_canary_change completed.
C19_RollbackXorPromotion ==
    /\ Cardinality(Indices("rollback_canary")) <= 1
    /\ Cardinality(Indices("promote")) <= 1
    /\ Indices("rollback_canary") = {} \/ Indices("promote") = {}
    /\ \A k \in Indices("rollback_canary") \cup Indices("promote") :
          \E j \in 1..(k - 1) : calls[j] = Call("apply_canary_change", 0, TRUE)
    /\ pc \in {"rollback", "promote"}
          => \E j \in DOMAIN calls : calls[j] = Call("apply_canary_change", 0, TRUE)
    /\ (BannerRollback \in printed) => (BannerCompleted \notin printed)

C19_Witness ==
    /\ pc = "done"
    /\ stage = 1
    /\ Cardinality(Indices("rollback_canary")) = 1
    /\ Indices("promote") = {}
    /\ ~raised

\* ------------------------------------------------------------------ C20
ConnectFailed == \E k \in DOMAIN calls : calls[k] = Call("connect_all", 0, FALSE)

\* C20: if connect_all returns False the run returns at once: connect_all is
\* its only call, no exception, no banner, canary_percentage still 0 and both
\* buffers still empty.
C20_ConnectFailureReturns ==
    ConnectFailed
        => /\ Len(calls) = 1
           /\ pc = "done"
           /\ ~raised
           /\ printed = {}
           /\ canary_percentage = 0
           /\ metrics = EmptyMetrics
           /\ canary_conn = "None"

C20_Witness == ConnectFailed /\ pc = "done" /\ stable_conn = "open"

====
